---- MODULE Spec2Model ----
(***************************************************************************)
(* Model of the agentic contact search of LeadOn:                          *)
(*   src/services/agentic_search_service.py  AgenticSearchService          *)
(*   src/crm_integration/chat_api.py         the chat endpoint's call      *)
(* One run of run_agentic_search is a state machine: the seeding call to   *)
(* the planning oracle, one action per iteration of the for loop over      *)
(* search_queries, and the code after the loop (deduplicate and return).   *)
(* The oracle (Claude) and the provider (Apollo) are the environment:      *)
(* their answers are drawn from bounded sets.                              *)
(* The Telegram campaigns of the campaign endpoint are a second state      *)
(* machine:                                                                *)
(*   src/services/telegram_campaign_service.py  TelegramCampaignService    *)
(*   src/crm_integration/chat_api.py            execute_telegram_campaign  *)
(* and the rate limiter of the Apollo client a third:                      *)
(*   src/scrapers/apollo_scraper.py             ApolloClient._make_request *)
(***************************************************************************)
EXTENDS Integers, Sequences, FiniteSets, TLC

\* ------------------------------------------------------------------ bounds
MaxSeed == 2          \* longest list of initial queries the oracle returns
MaxGen == 1           \* most new specs in one expansion / refinement answer
MaxBatch == 1         \* most contacts the provider returns for one search
MaxIterations == 1    \* largest max_iterations of a direct call (the chat
                      \* endpoint always passes 3)
MaxMinResults == 2    \* largest min_results of a direct call
MaxContacts == 4      \* largest max_contacts of a chat message
MaxLen == 3           \* longest contact list given to the deduplicator alone
MaxCampaigns == 2     \* most Telegram campaigns started
MaxCampaignContacts == 2   \* most contacts with a phone number in one campaign
MaxTicks == 2         \* most times the clock is advanced
MaxServiceSends == 11 \* most messages one service object sends
MaxServiceTicks == 10 \* most hours that pass between its first and last call
MaxRateLimit == 2     \* largest rate_limit_requests of an Apollo client
MaxRateWindow == 3    \* largest rate_limit_window of an Apollo client, in seconds
MaxApolloClock == 6   \* latest time of an Apollo request, in seconds
MaxOversleep == 1     \* most seconds sleep() lasts longer than asked

\* ---------------------------------------------------------------- helpers
Min(a, b) == IF a <= b THEN a ELSE b

SeqsUpTo(S, n) == UNION {[1..k -> S] : k \in 0..n}

\* The orders in which list(a_set) may enumerate a set.
ListsOf(S) ==
    {s \in [1..Cardinality(S) -> S] : \A i, j \in 1..Cardinality(S) : s[i] = s[j] => i = j}

\* ------------------------------------------------------------------ values
\* Python's None; None and the empty string are the falsy field values.
None == "None"
Truthy(v) == v \notin {None, ""}

placeholder_emails ==
    {"email_not_unlocked@domain.com", "email_not_available@domain.com", "noemail@domain.com"}

\* Query specs are named by numbers: the fallback query of
\* _generate_search_queries is spec 0, and the k-th spec the oracle invents
\* during a run is spec k.
FallbackQuery == 0

\* An element of the oracle's JSON list that is not a spec object (a number,
\* a string): json.loads returns it as it is.
MalformedQuery == -1

\* A contact dict, cut down to the fields the service reads.
MkContact(e, l, i, c) == [email |-> e, linkedin_url |-> l, id |-> i, company |-> c]

\* The contacts the provider returns during a run: one with every identifying
\* field, one with a placeholder email and a profile URL, one with no
\* identifying field and no company.
Pool ==
    { MkContact("e1@x.com", "li/u1", "i1", "Beta"),
      MkContact("email_not_unlocked@domain.com", "li/u2", None, "Acme"),
      MkContact("email_not_unlocked@domain.com", None, None, None) }

\* The contacts given to the deduplicator when it is exercised alone.
Universe ==
    { MkContact(e, l, i, None) :
        e \in {None, "email_not_unlocked@domain.com", "e1@x.com", "e2@x.com"},
        l \in {None, "li/u1"},
        i \in {None, "i1"} }

\* --------------------------------------------------------- the deduplicator
\* _deduplicate_contacts, lines 397-400: the loop's state before the first
\* contact.
DedupStart ==
    [seen_emails |-> {}, seen_linkedin |-> {}, seen_ids |-> {}, unique |-> <<>>]

\* Lines 414-416, with the placeholder test left out.
EffectiveEmailKeepingPlaceholder(email) == email

\* Lines 414-416: a placeholder email counts as no email.
EffectiveEmail(email) == IF email \in placeholder_emails THEN None ELSE email

\* Lines 419-426, read as a chain that tests only the first truthy field.
IsDuplicateFirstFieldOnly(st, email, linkedin, contact_id) ==
    IF Truthy(email) THEN email \in st.seen_emails
    ELSE IF Truthy(linkedin) THEN linkedin \in st.seen_linkedin
    ELSE IF Truthy(contact_id) THEN contact_id \in st.seen_ids
    ELSE FALSE

\* Lines 419-426: the if/elif chain sets is_duplicate as soon as one truthy
\* field is in its seen set (a false test falls through to the next elif).
IsDuplicate(st, email, linkedin, contact_id) ==
    IF Truthy(email) /\ email \in st.seen_emails THEN TRUE
    ELSE IF Truthy(linkedin) /\ linkedin \in st.seen_linkedin THEN TRUE
    ELSE IF Truthy(contact_id) /\ contact_id \in st.seen_ids THEN TRUE
    ELSE FALSE

\* Lines 428-437, forgetting to record the profile URL.
KeepForgettingLinkedin(st, contact, email, linkedin, contact_id) ==
    [seen_emails   |-> IF Truthy(email) THEN st.seen_emails \cup {email} ELSE st.seen_emails,
     seen_linkedin |-> st.seen_linkedin,
     seen_ids      |-> IF Truthy(contact_id) THEN st.seen_ids \cup {contact_id} ELSE st.seen_ids,
     unique        |-> Append(st.unique, contact)]

\* Lines 428-437, forgetting to record the id.
KeepForgettingId(st, contact, email, linkedin, contact_id) ==
    [seen_emails   |-> IF Truthy(email) THEN st.seen_emails \cup {email} ELSE st.seen_emails,
     seen_linkedin |-> IF Truthy(linkedin) THEN st.seen_linkedin \cup {linkedin}
                       ELSE st.seen_linkedin,
     seen_ids      |-> st.seen_ids,
     unique        |-> Append(st.unique, contact)]

\* Lines 428-437, putting the kept contact in front of the ones kept before.
KeepInFront(st, contact, email, linkedin, contact_id) ==
    [seen_emails   |-> IF Truthy(email) THEN st.seen_emails \cup {email} ELSE st.seen_emails,
     seen_linkedin |-> IF Truthy(linkedin) THEN st.seen_linkedin \cup {linkedin}
                       ELSE st.seen_linkedin,
     seen_ids      |-> IF Truthy(contact_id) THEN st.seen_ids \cup {contact_id} ELSE st.seen_ids,
     unique        |-> <<contact>> \o st.unique]

\* Lines 428-437: a contact that is no duplicate adds its truthy fields to the
\* seen sets and is appended to unique.
Keep(st, contact, email, linkedin, contact_id) ==
    [seen_emails   |-> IF Truthy(email) THEN st.seen_emails \cup {email} ELSE st.seen_emails,
     seen_linkedin |-> IF Truthy(linkedin) THEN st.seen_linkedin \cup {linkedin}
                       ELSE st.seen_linkedin,
     seen_ids      |-> IF Truthy(contact_id) THEN st.seen_ids \cup {contact_id} ELSE st.seen_ids,
     unique        |-> Append(st.unique, contact)]

\* Lines 409-437, skipping a contact that has no identifying field.
DedupStepSkippingUnidentified(st, contact) ==
    LET email      == EffectiveEmail(contact.email)
        linkedin   == contact.linkedin_url
        contact_id == contact.id
    IN  IF IsDuplicate(st, email, linkedin, contact_id)
           \/ ~(Truthy(email) \/ Truthy(linkedin) \/ Truthy(contact_id))
        THEN st
        ELSE Keep(st, contact, email, linkedin, contact_id)

\* Lines 409-437, remembering the fields of a dropped duplicate too.
DedupStepRememberingDropped(st, contact) ==
    LET email      == EffectiveEmail(contact.email)
        linkedin   == contact.linkedin_url
        contact_id == contact.id
    IN  IF IsDuplicate(st, email, linkedin, contact_id)
        THEN [Keep(st, contact, email, linkedin, contact_id) EXCEPT !.unique = st.unique]
        ELSE Keep(st, contact, email, linkedin, contact_id)

\* Lines 409-437: one pass of the loop body.
DedupStep(st, contact) ==
    LET email      == EffectiveEmail(contact.email)
        linkedin   == contact.linkedin_url
        contact_id == contact.id
    IN  IF IsDuplicate(st, email, linkedin, contact_id)
        THEN st
        ELSE Keep(st, contact, email, linkedin, contact_id)

\* Lines 397-439: the loop over contacts, from the empty seen sets.
RECURSIVE DedupLoop(_, _, _)
DedupLoop(st, contacts, k) ==
    IF k > Len(contacts) THEN st
    ELSE DedupLoop(DedupStep(st, contacts[k]), contacts, k + 1)

DedupRun(contacts) == DedupLoop(DedupStart, contacts, 1)

\* _deduplicate_contacts: the list it returns.
DeduplicateContacts(contacts) == DedupRun(contacts).unique

\* ------------------------------------------------------ oracle and provider
\* n new specs, when `known` specs have been named so far.
NewSpecs(known, n) == [i \in 1..n |-> known + i]

\* What one call of self.claude.messages.create gives: the call raises, or the
\* text is not JSON, or the text is JSON but no list (a number), or the text
\* is a JSON list: up to maxn new specs, or a list that repeats one of
\* `again`, or a list whose element is not a spec object.
OracleAnswers(known, maxn, again) ==
    {[kind |-> "raise", queries |-> <<>>], [kind |-> "unparseable", queries |-> <<>>],
     [kind |-> "scalar", queries |-> <<>>]}
    \cup {[kind |-> "list", queries |-> NewSpecs(known, n)] : n \in 0..maxn}
    \cup {[kind |-> "list", queries |-> <<q>>] : q \in again \cup {MalformedQuery}}

\* What one call of self.apollo.search_people gives: it raises, or it returns
\* a page of contacts (at most per_page of them when per_page is positive).
ProviderAnswers(per_page) ==
    {[ok |-> FALSE, contacts |-> <<>>]}
    \cup {[ok |-> TRUE, contacts |-> cs] :
            cs \in SeqsUpTo(Pool, IF per_page >= 1 THEN Min(per_page, MaxBatch) ELSE MaxBatch)}

\* Lines 242-249 for one query: query_params.get(...) of an element that is
\* no dict raises inside the try before the provider is called.
SearchOutcomes(query_params, per_page) ==
    IF query_params = MalformedQuery THEN {[ok |-> FALSE, contacts |-> <<>>]}
    ELSE ProviderAnswers(per_page)

\* _generate_search_queries, lines 206-229: the oracle call is outside the
\* try, so an exception of the call leaves the function; only a
\* json.JSONDecodeError gives the fallback query; whatever json.loads returns
\* is returned unchecked, and len() of a number raises at line 79.
GenerateSearchQueries(answer) ==
    CASE answer.kind = "raise"       -> [raised |-> TRUE, queries |-> <<>>]
      [] answer.kind = "unparseable" -> [raised |-> FALSE, queries |-> <<FallbackQuery>>]
      [] answer.kind = "scalar"      -> [raised |-> TRUE, queries |-> <<>>]
      [] OTHER                       -> [raised |-> FALSE, queries |-> answer.queries]

\* _execute_apollo_search, lines 242-258: any exception is logged and turned
\* into ([], []); companies are the distinct truthy company names.
ExecuteApolloSearch(answer) ==
    IF answer.ok
    THEN [contacts  |-> answer.contacts,
          companies |-> {answer.contacts[i].company : i \in 1..Len(answer.contacts)}
                          \ {None, ""}]
    ELSE [contacts |-> <<>>, companies |-> {}]

\* _learn_and_expand, lines 320-333, with no try around it: an exception of
\* the oracle leaves the function.
LearnAndExpandUncaught(answer) ==
    CASE answer.kind = "list" -> [raised |-> FALSE, queries |-> answer.queries]
      [] OTHER                -> [raised |-> TRUE, queries |-> <<>>]

\* _learn_and_expand, lines 320-333: every exception gives []; whatever
\* json.loads returns is returned unchecked, and len() of a number raises in
\* the caller (line 119).
LearnAndExpand(answer) ==
    CASE answer.kind = "list"   -> [raised |-> FALSE, queries |-> answer.queries]
      [] answer.kind = "scalar" -> [raised |-> TRUE, queries |-> <<>>]
      [] OTHER                  -> [raised |-> FALSE, queries |-> <<>>]

\* _refine_failed_search, lines 377-390: every exception gives []; a number
\* raises in the caller (line 135).
RefineFailedSearch(answer) ==
    CASE answer.kind = "list"   -> [raised |-> FALSE, queries |-> answer.queries]
      [] answer.kind = "scalar" -> [raised |-> TRUE, queries |-> <<>>]
      [] OTHER                  -> [raised |-> FALSE, queries |-> <<>>]

\* The chat endpoint's call, chat_api.py lines 416-426.
ChatMaxIterations == 3
ChatMinResults(max_contacts) == Min(Min(max_contacts, 100) \div 2, 10)
ChatMaxResultsPerQuery(max_contacts) == Min(Min(max_contacts, 100), 25)

\* -------------------------------------------------------------------- state
VARIABLES
    pc,                    \* "start", "loop", "done", "raised"
    caller,                \* "direct" or "chat"
    user_query, max_iterations, min_results, max_results_per_query,
    search_queries,        \* the list the for loop iterates over
    cursor,                \* how many of its elements the loop has taken
    iteration, all_contacts, all_companies, search_history,
    result,                \* the returned dictionary, once pc = "done"
    events,                \* every oracle and provider call, in order
    d_input, d_acc, d_state, d_added, d_again,  \* the deduplicator alone
    t_now,                 \* datetime.now(), in seconds
    t_ticks,               \* how many times the clock has been advanced
    t_campaigns,           \* the campaigns started: service and contacts left
    t_sent,                \* the times of the messages Telegram accepted
    a_now,                 \* time(), in seconds
    rate_limit_requests, rate_limit_window,
    request_times,         \* ApolloClient.request_times
    a_requests,            \* the _make_request calls: when called, when issued
    other,                 \* the locals of a second call of run_agentic_search
                           \* on the same service object, while it does not run
    running                \* which of the two calls is taking steps

runVars ==
    <<pc, caller, user_query, max_iterations, min_results, max_results_per_query,
      search_queries, cursor, iteration, all_contacts, all_companies, search_history,
      result, events>>
dedupVars == <<d_input, d_acc, d_state, d_added, d_again>>
telegramVars == <<t_now, t_ticks, t_campaigns, t_sent>>
apolloVars == <<a_now, rate_limit_requests, rate_limit_window, request_times, a_requests>>
parkedVars == <<other, running>>
vars == <<runVars, dedupVars, telegramVars, apolloVars, parkedVars>>

NoResult ==
    [contacts |-> <<>>, companies |-> <<>>, search_history |-> <<>>, iterations |-> 0,
     stats |-> [total_contacts |-> 0, total_companies |-> 0, queries_executed |-> 0,
                avg_results_per_query |-> <<0, 1>>]]

\* run_agentic_search, lines 71-74, for the arguments of one call.
RunStart(who, goal, maxit, minres, cap) ==
    /\ pc = "start"
    /\ caller = who
    /\ user_query = goal
    /\ max_iterations = maxit
    /\ min_results = minres
    /\ max_results_per_query = cap
    /\ search_queries = <<>>
    /\ cursor = 0
    /\ iteration = 0
    /\ all_contacts = <<>>
    /\ all_companies = {}
    /\ search_history = <<>>
    /\ result = NoResult
    /\ events = <<>>

DedupIdle ==
    /\ d_input = <<>>
    /\ d_acc = <<>>
    /\ d_state = DedupStart
    /\ d_added = <<>>
    /\ d_again = <<>>

TelegramIdle ==
    /\ t_now = 0
    /\ t_ticks = 0
    /\ t_campaigns = <<>>
    /\ t_sent = <<>>

\* Lines 39-40 of apollo_scraper.py: the default of both limits.
DefaultRateLimit == 60

ApolloIdle ==
    /\ a_now = 0
    /\ rate_limit_requests = DefaultRateLimit
    /\ rate_limit_window = DefaultRateLimit
    /\ request_times = <<>>
    /\ a_requests = <<>>

\* No second call of run_agentic_search.
NoOther == [pc |-> "none"]

ParkedIdle ==
    /\ other = NoOther
    /\ running = 1

\* Line 54: the default of max_results_per_query.
DefaultMaxResultsPerQuery == 25

\* The goal and the per-query cap of a direct call: a usual call, one with an
\* empty goal, one with a cap of zero (the loop reads neither).
GoalAndCap ==
    {<<"find CTOs", DefaultMaxResultsPerQuery>>, <<"", DefaultMaxResultsPerQuery>>,
     <<"find CTOs", 0>>}

Init ==
    /\ DedupIdle
    /\ ApolloIdle
    /\ TelegramIdle
    /\ ParkedIdle
    /\ \/ \E gc \in GoalAndCap, maxit \in 0..MaxIterations, minres \in 0..MaxMinResults :
            RunStart("direct", gc[1], maxit, minres, gc[2])
       \/ \E goal \in {"", "find CTOs"}, max_contacts \in 0..MaxContacts :
            RunStart("chat", goal, ChatMaxIterations, ChatMinResults(max_contacts),
                     ChatMaxResultsPerQuery(max_contacts))

\* ------------------------------------------------------------------ the run
inputVars == <<caller, user_query, max_iterations, min_results, max_results_per_query>>

Event(op, round, outcome, out) ==
    [op |-> op, round |-> round, outcome |-> outcome, out |-> out]

\* What the caller of _learn_and_expand and _refine_failed_search can tell of
\* the oracle's answer: both catch every exception.
Caught(answer) ==
    CASE answer.kind = "list"   -> "list"
      [] answer.kind = "scalar" -> "scalar"
      [] OTHER                  -> "failed"

\* Lines 76-79: the seeding call. An exception of the oracle call is not
\* caught in run_agentic_search and ends the run.
Seed ==
    /\ pc = "start"
    /\ \E answer \in OracleAnswers(0, MaxSeed, {}) :
         LET g == GenerateSearchQueries(answer)
         IN  /\ events' = Append(events, Event("initial", 0, answer.kind, g.queries))
             /\ IF g.raised
                THEN /\ pc' = "raised"
                     /\ UNCHANGED search_queries
                ELSE /\ pc' = "loop"
                     /\ search_queries' = g.queries
    /\ UNCHANGED <<inputVars, cursor, iteration, all_contacts, all_companies,
                   search_history, result, dedupVars, telegramVars, apolloVars, parkedVars>>

\* Lines 83-84, with > for >=.
ConvergedStrict(contacts, minres) == Len(contacts) > minres

\* Lines 83-84: the test that breaks out of the loop.
Converged(contacts, minres) == Len(contacts) >= minres

\* Line 109: whether _learn_and_expand is called.
ShouldExpand(contacts, minres, it, maxit) == Len(contacts) < minres /\ it < maxit

\* Line 125: whether _refine_failed_search is called.
ShouldRefine(it, maxit) == it < maxit

\* Lines 120 and 136, inserting the new queries right behind the current one.
ExtendBehindCurrent(queries, taken, new) ==
    SubSeq(queries, 1, taken) \o new \o SubSeq(queries, taken + 1, Len(queries))

\* Lines 120 and 136: search_queries.extend(...), the list the loop is
\* iterating over (taken elements have been taken by the loop so far).
Extend(queries, taken, new) == queries \o new

\* Lines 96-101, counting one contact less.
RoundRecordMiscounting(it, query_params, found) ==
    [iteration       |-> it,
     query_params    |-> query_params,
     results_count   |-> IF Len(found.contacts) > 0 THEN Len(found.contacts) - 1 ELSE 0,
     companies_found |-> Cardinality(found.companies)]

\* Lines 96-101: the record appended to search_history for one round.
RoundRecord(it, query_params, found) ==
    [iteration       |-> it,
     query_params    |-> query_params,
     results_count   |-> Len(found.contacts),
     companies_found |-> Cardinality(found.companies)]

\* Lines 82-136: one iteration of the for loop, for one answer of the provider
\* and, when the oracle is asked, one answer of the oracle.
Round ==
    /\ pc = "loop"
    /\ cursor < Len(search_queries)
    /\ ~Converged(all_contacts, min_results)
    /\ \E panswer \in SearchOutcomes(search_queries[cursor + 1], max_results_per_query) :
         LET query_params == search_queries[cursor + 1]
             it           == iteration + 1
             found        == ExecuteApolloSearch(panswer)
             searched     == Event("search", it,
                                   IF query_params = MalformedQuery THEN "malformed"
                                   ELSE IF panswer.ok THEN "ok" ELSE "raise", <<>>)
             gathered     == all_contacts \o found.contacts
         IN  /\ cursor' = cursor + 1
             /\ iteration' = it
             /\ search_history' = Append(search_history, RoundRecord(it, query_params, found))
             /\ IF found.contacts # <<>>
                THEN /\ all_contacts' = gathered
                     /\ all_companies' = all_companies \cup found.companies
                     /\ IF ShouldExpand(gathered, min_results, it, max_iterations)
                        THEN \E oanswer \in OracleAnswers(Len(search_queries), MaxGen, {query_params}) :
                               LET new == LearnAndExpand(oanswer)
                               IN  /\ search_queries' = Extend(search_queries, cursor + 1, new.queries)
                                   /\ events' = events \o
                                        <<searched, Event("expand", it, Caught(oanswer), new.queries)>>
                                   /\ pc' = IF new.raised THEN "raised" ELSE pc
                        ELSE /\ UNCHANGED <<search_queries, pc>>
                             /\ events' = Append(events, searched)
                ELSE /\ UNCHANGED <<all_contacts, all_companies>>
                     /\ IF ShouldRefine(it, max_iterations)
                        THEN \E oanswer \in OracleAnswers(Len(search_queries), MaxGen, {query_params}) :
                               LET new == RefineFailedSearch(oanswer)
                               IN  /\ search_queries' = Extend(search_queries, cursor + 1, new.queries)
                                   /\ events' = events \o
                                        <<searched, Event("refine", it, Caught(oanswer), new.queries)>>
                                   /\ pc' = IF new.raised THEN "raised" ELSE pc
                        ELSE /\ UNCHANGED <<search_queries, pc>>
                             /\ events' = Append(events, searched)
    /\ UNCHANGED <<inputVars, result, dedupVars, telegramVars, apolloVars, parkedVars>>

\* Lines 151-156, counting the contacts before deduplication.
StatsCountingRaw(unique_contacts, contacts, companies, history) ==
    [total_contacts   |-> Len(contacts),
     total_companies  |-> Cardinality(companies),
     queries_executed |-> Len(history),
     avg_results_per_query |->
         IF history # <<>> THEN <<Len(contacts), Len(history)>> ELSE <<0, 1>>]

\* Lines 151-156: the stats of the returned dictionary. The quotient
\* len(all_contacts) / len(search_history) is kept as the pair of numerator
\* and denominator; without history it is 0.
Stats(unique_contacts, contacts, companies, history) ==
    [total_contacts   |-> Len(unique_contacts),
     total_companies  |-> Cardinality(companies),
     queries_executed |-> Len(history),
     avg_results_per_query |->
         IF history # <<>> THEN <<Len(contacts), Len(history)>> ELSE <<0, 1>>]

\* Lines 138-157: after the loop (its list is used up, or the break of line
\* 84), deduplicate and build the returned dictionary. list(all_companies)
\* enumerates the set in an order the code does not control.
Finish ==
    /\ pc = "loop"
    /\ cursor = Len(search_queries) \/ Converged(all_contacts, min_results)
    /\ LET unique_contacts == DeduplicateContacts(all_contacts)
       IN  \E companies \in ListsOf(all_companies) :
             result' =
               [contacts       |-> unique_contacts,
                companies      |-> companies,
                search_history |-> search_history,
                iterations     |-> iteration,
                stats |-> Stats(unique_contacts, all_contacts, all_companies, search_history)]
    /\ pc' = "done"
    /\ UNCHANGED <<inputVars, search_queries, cursor, iteration, all_contacts,
                   all_companies, search_history, events, dedupVars, telegramVars, apolloVars, parkedVars>>

Next == Seed \/ Round \/ Finish

Spec == Init /\ [][Next]_vars

\* ------------------------------------------------- the deduplicator alone
\* _deduplicate_contacts applied to contact lists of every shape: a list is
\* merged into the accumulated list (all_contacts.extend, then the
\* deduplication of the whole), twice, and the deduplicated list is
\* deduplicated again.
\* run_agentic_search is one synchronous call (lines 47-157): once called it
\* keeps taking steps until it returns or raises; every call of the oracle
\* and of the provider returns or raises.
FairSpec == Init /\ [][Next]_vars /\ WF_vars(Next)

\* ------------------------------------------ two calls on one service object
\* Lines 47-74: everything a call of run_agentic_search works on is an
\* argument or a local variable of that call.
RunLocals ==
    [pc |-> pc, caller |-> caller, user_query |-> user_query,
     max_iterations |-> max_iterations, min_results |-> min_results,
     max_results_per_query |-> max_results_per_query,
     search_queries |-> search_queries, cursor |-> cursor, iteration |-> iteration,
     all_contacts |-> all_contacts, all_companies |-> all_companies,
     search_history |-> search_history, result |-> result, events |-> events]

\* The locals of a call that has not taken a step yet, lines 71-74.
StartLocals(who, goal, maxit, minres, cap) ==
    [pc |-> "start", caller |-> who, user_query |-> goal,
     max_iterations |-> maxit, min_results |-> minres,
     max_results_per_query |-> cap,
     search_queries |-> <<>>, cursor |-> 0, iteration |-> 0,
     all_contacts |-> <<>>, all_companies |-> {},
     search_history |-> <<>>, result |-> NoResult, events |-> <<>>]

\* Lines 71-74, as if all_contacts were an attribute of the service object.
ResumedSharingContacts(mine, theirs) ==
    [theirs EXCEPT !.all_contacts = mine.all_contacts]

\* Lines 71-74: what a call that takes over finds is its own frame; the call
\* that stops (mine) leaves nothing behind on the service object, whose
\* attributes (lines 35-45) no step of a run assigns.
Resumed(mine, theirs) == theirs

\* Two calls of run_agentic_search on one AgenticSearchService, from two
\* threads: one that may expand once and one that may not.
InitConcurrent ==
    /\ DedupIdle
    /\ ApolloIdle
    /\ TelegramIdle
    /\ RunStart("direct", "find CTOs", 2, 1, DefaultMaxResultsPerQuery)
    /\ other = StartLocals("direct", "find CTOs", 1, 1, DefaultMaxResultsPerQuery)
    /\ running = 1

\* The scheduler stops the thread of the running call between two steps and
\* lets the thread of the other call go on.
Switch ==
    /\ pc \in {"start", "loop", "done", "raised"}
    /\ other # NoOther
    /\ LET mine  == RunLocals
           frame == Resumed(mine, other)
       IN  /\ pc' = frame.pc
           /\ caller' = frame.caller
           /\ user_query' = frame.user_query
           /\ max_iterations' = frame.max_iterations
           /\ min_results' = frame.min_results
           /\ max_results_per_query' = frame.max_results_per_query
           /\ search_queries' = frame.search_queries
           /\ cursor' = frame.cursor
           /\ iteration' = frame.iteration
           /\ all_contacts' = frame.all_contacts
           /\ all_companies' = frame.all_companies
           /\ search_history' = frame.search_history
           /\ result' = frame.result
           /\ events' = frame.events
           /\ other' = mine
    /\ running' = 3 - running
    /\ UNCHANGED <<dedupVars, telegramVars, apolloVars>>

NextConcurrent == Seed \/ Round \/ Finish \/ Switch

SpecConcurrent == InitConcurrent /\ [][NextConcurrent]_vars

InitDedup ==
    /\ pc = "dedup"
    /\ caller = "direct"
    /\ user_query = ""
    /\ max_iterations = 0
    /\ min_results = 0
    /\ max_results_per_query = 0
    /\ search_queries = <<>>
    /\ cursor = 0
    /\ iteration = 0
    /\ all_contacts = <<>>
    /\ all_companies = {}
    /\ search_history = <<>>
    /\ result = NoResult
    /\ events = <<>>
    /\ d_input \in SeqsUpTo(Universe, MaxLen)
    /\ d_acc = <<>>
    /\ d_state = DedupStart
    /\ d_added = <<>>
    /\ d_again = <<>>
    /\ TelegramIdle
    /\ ParkedIdle
    /\ ApolloIdle

\* Lines 104 and 139 for one more batch: extend, then deduplicate the whole.
Merge ==
    /\ pc = "dedup"
    /\ Len(d_added) < 2
    /\ d_acc' = d_acc \o d_input
    /\ d_state' = DedupRun(d_acc')
    /\ d_added' = Append(d_added, Len(d_state'.unique) - Len(d_state.unique))
    /\ UNCHANGED <<runVars, d_input, d_again, telegramVars, apolloVars, parkedVars>>

\* _deduplicate_contacts applied to its own output.
Rededup ==
    /\ pc = "dedup"
    /\ Len(d_added) >= 1
    /\ d_again = <<>>
    /\ d_again' = <<DeduplicateContacts(d_state.unique)>>
    /\ UNCHANGED <<runVars, d_input, d_acc, d_state, d_added, telegramVars, apolloVars, parkedVars>>

NextDedup == Merge \/ Rededup

SpecDedup == InitDedup /\ [][NextDedup]_vars

\* ------------------------------------------------- the Telegram campaigns
\* telegram_campaign_service.py, lines 49-50.
MAX_DAILY_MESSAGES == 10
MIN_MESSAGE_INTERVAL == 3600

\* timedelta(days=1), line 92, in seconds.
DaySeconds == 86400

\* The amounts by which the clock is advanced between two steps: half an
\* hour, an hour, a day.
ClockSteps == {1800, 3600, 86400}

\* last_message_time and daily_reset_time before they are set (None).
NoTime == -1

\* TelegramCampaignService.__init__, lines 45-48: the counters of a new
\* service object.
NewService ==
    [messages_sent_today |-> 0, last_message_time |-> NoTime, daily_reset_time |-> NoTime]

\* _check_rate_limit, lines 87-112: the daily counter is reset when its day
\* is over, then the daily limit and the interval since the last message of
\* THIS service object are tested.
CheckRateLimit(service, now) ==
    LET counted ==
            IF service.daily_reset_time = NoTime \/ now >= service.daily_reset_time
            THEN [service EXCEPT !.messages_sent_today = 0,
                                 !.daily_reset_time = now + DaySeconds]
            ELSE service
    IN  [service  |-> counted,
         can_send |->
            IF counted.messages_sent_today >= MAX_DAILY_MESSAGES THEN FALSE
            ELSE IF counted.last_message_time # NoTime
                    /\ now - counted.last_message_time < MIN_MESSAGE_INTERVAL THEN FALSE
            ELSE TRUE]

\* send_message, lines 168-214: the rate check, then the call of Telegram;
\* the counters move only when Telegram accepted the message.
SendMessage(service, now, delivered) ==
    LET rate_check == CheckRateLimit(service, now)
    IN  IF ~rate_check.can_send
        THEN [service |-> rate_check.service, success |-> FALSE]
        ELSE IF delivered
        THEN [service |-> [rate_check.service EXCEPT
                              !.messages_sent_today = @ + 1,
                              !.last_message_time = now],
              success |-> TRUE]
        ELSE [service |-> rate_check.service, success |-> FALSE]

\* send_campaign_message, lines 215-254: a contact that is not on Telegram
\* gets no message and no rate check.
SendCampaignMessage(service, now, has_telegram, delivered) ==
    IF has_telegram THEN SendMessage(service, now, delivered)
    ELSE [service |-> service, success |-> FALSE]

InitTelegram ==
    /\ pc = "telegram"
    /\ caller = "direct"
    /\ user_query = ""
    /\ max_iterations = 0
    /\ min_results = 0
    /\ max_results_per_query = 0
    /\ search_queries = <<>>
    /\ cursor = 0
    /\ iteration = 0
    /\ all_contacts = <<>>
    /\ all_companies = {}
    /\ search_history = <<>>
    /\ result = NoResult
    /\ events = <<>>
    /\ DedupIdle
    /\ ApolloIdle
    /\ TelegramIdle
    /\ ParkedIdle

\* start_telegram_campaign, chat_api.py lines 1762-1849, and the start of
\* the background task it schedules, execute_telegram_campaign, lines
\* 1889-1899: a campaign over at least one contact with a phone number gets a
\* service object of its own; when connect() fails it sends nothing.
StartTelegramCampaign ==
    /\ pc = "telegram"
    /\ Len(t_campaigns) < MaxCampaigns
    /\ \E contacts \in 1..MaxCampaignContacts, connected \in BOOLEAN :
         t_campaigns' =
            Append(t_campaigns,
                   [telegram_service |-> NewService,
                    contacts         |-> IF connected THEN contacts ELSE 0])
    /\ UNCHANGED <<runVars, dedupVars, apolloVars, parkedVars, t_now, t_ticks, t_sent>>

\* execute_telegram_campaign, lines 1904-1950: one iteration of the loop over
\* the contacts of campaign c. The loop does not wait: a message the rate
\* check refuses is recorded as failed and the loop goes on.
CampaignStep(c) ==
    /\ pc = "telegram"
    /\ t_campaigns[c].contacts > 0
    /\ \E has_telegram \in BOOLEAN, delivered \in BOOLEAN :
         LET sent == SendCampaignMessage(t_campaigns[c].telegram_service, t_now,
                                         has_telegram, delivered)
         IN  /\ t_campaigns' =
                  [t_campaigns EXCEPT ![c] =
                      [telegram_service |-> sent.service, contacts |-> @.contacts - 1]]
             /\ t_sent' = IF sent.success THEN Append(t_sent, t_now) ELSE t_sent
    /\ UNCHANGED <<runVars, dedupVars, apolloVars, parkedVars, t_now, t_ticks>>

\* Time passes.
Tick ==
    /\ pc = "telegram"
    /\ t_ticks < MaxTicks
    /\ \E d \in ClockSteps : t_now' = t_now + d
    /\ t_ticks' = t_ticks + 1
    /\ UNCHANGED <<runVars, dedupVars, apolloVars, parkedVars, t_campaigns, t_sent>>

NextTelegram ==
    \/ StartTelegramCampaign
    \/ \E c \in 1..Len(t_campaigns) : CampaignStep(c)
    \/ Tick

SpecTelegram == InitTelegram /\ [][NextTelegram]_vars

\* ------------------------------------------- one Telegram service object
\* The time between two send_message calls on one service object: an hour.
ServiceClockStep == 3600

\* How long before its first send_message call the object's rate limit was
\* looked at (get_rate_limit_status, line 284, runs _check_rate_limit, which
\* starts the day of the daily counter): fourteen hours.
EarlierCheck == 50400

\* get_rate_limit_status called on a new service object at the given time.
StatusChecked(at) == CheckRateLimit(NewService, at).service

\* One TelegramCampaignService object before its first send_message call: a
\* new one, or one whose get_rate_limit_status was called EarlierCheck ago.
InitService ==
    /\ pc = "service"
    /\ caller = "direct"
    /\ user_query = ""
    /\ max_iterations = 0
    /\ min_results = 0
    /\ max_results_per_query = 0
    /\ search_queries = <<>>
    /\ cursor = 0
    /\ iteration = 0
    /\ all_contacts = <<>>
    /\ all_companies = {}
    /\ search_history = <<>>
    /\ result = NoResult
    /\ events = <<>>
    /\ DedupIdle
    /\ ApolloIdle
    /\ ParkedIdle
    /\ t_now = 0
    /\ t_ticks = 0
    /\ \E service \in {NewService, StatusChecked(0 - EarlierCheck)} :
         t_campaigns = <<[telegram_service |-> service, contacts |-> 0]>>
    /\ t_sent = <<>>

\* send_message, lines 156-214, called on the service object: Telegram
\* accepts the message or raises.
ServiceSend ==
    /\ pc = "service"
    /\ Len(t_sent) < MaxServiceSends
    /\ \E delivered \in BOOLEAN :
         LET sent == SendMessage(t_campaigns[1].telegram_service, t_now, delivered)
         IN  /\ t_campaigns' = <<[telegram_service |-> sent.service, contacts |-> 0]>>
             /\ t_sent' = IF sent.success THEN Append(t_sent, t_now) ELSE t_sent
    /\ UNCHANGED <<runVars, dedupVars, apolloVars, parkedVars, t_now, t_ticks>>

\* An hour passes between two calls.
ServiceTick ==
    /\ pc = "service"
    /\ t_ticks < MaxServiceTicks
    /\ t_now' = t_now + ServiceClockStep
    /\ t_ticks' = t_ticks + 1
    /\ UNCHANGED <<runVars, dedupVars, apolloVars, parkedVars, t_campaigns, t_sent>>

NextService == ServiceSend \/ ServiceTick

SpecService == InitService /\ [][NextService]_vars

\* ------------------------------------------------------- the Apollo client
\* Lines 99 and 108 of _make_request: the recorded requests still inside the
\* window.
InWindow(times, current_time, window) ==
    SelectSeq(times, LAMBDA t : current_time - t < window)

LimitReachedOneLate(times, limit) == Len(times) > limit

\* Line 102.
LimitReached(times, limit) == Len(times) >= limit

\* Lines 96-111 of _make_request: prune the log, wait when it is full, record
\* the request.  `oversleep` is how much longer than asked sleep() lasted.
\* request_times[0] of an empty list raises IndexError (a limit of 0).
RateLimit(times, now, limit, window, oversleep) ==
    LET pruned == InWindow(times, now, window) IN
    IF LimitReached(pruned, limit)
        THEN IF pruned = <<>>
                THEN [raised |-> TRUE, current_time |-> now, request_times |-> pruned]
             ELSE LET sleep_time == window - (now - pruned[1])
                      woken == now + sleep_time + oversleep
                  IN IF sleep_time > 0
                        THEN [raised |-> FALSE, current_time |-> woken,
                              request_times |->
                                  Append(InWindow(pruned, woken, window), woken)]
                     ELSE [raised |-> FALSE, current_time |-> now,
                           request_times |-> Append(pruned, now)]
    ELSE [raised |-> FALSE, current_time |-> now,
          request_times |-> Append(pruned, now)]

\* A client as ApolloClient.__init__ builds it, lines 36-72.
InitApollo ==
    /\ pc = "apollo"
    /\ caller = "direct"
    /\ user_query = ""
    /\ max_iterations = 0
    /\ min_results = 0
    /\ max_results_per_query = 0
    /\ search_queries = <<>>
    /\ cursor = 0
    /\ iteration = 0
    /\ all_contacts = <<>>
    /\ all_companies = {}
    /\ search_history = <<>>
    /\ result = NoResult
    /\ events = <<>>
    /\ DedupIdle
    /\ TelegramIdle
    /\ ParkedIdle
    /\ a_now = 0
    /\ rate_limit_requests \in 1..MaxRateLimit
    /\ rate_limit_window \in 1..MaxRateWindow
    /\ request_times = <<>>
    /\ a_requests = <<>>

\* One call of _make_request, lines 76-123: the limiter, then the HTTP request.
\* Whatever the response is (raise_for_status may raise), the request was
\* issued at the recorded time.
MakeRequest ==
    /\ pc = "apollo"
    /\ \E oversleep \in 0..MaxOversleep :
         LET limited == RateLimit(request_times, a_now, rate_limit_requests,
                                  rate_limit_window, oversleep)
         IN /\ limited.current_time <= MaxApolloClock
            /\ a_now' = limited.current_time
            /\ request_times' = limited.request_times
            /\ a_requests' = Append(a_requests,
                   [called |-> a_now,
                    issued |-> IF limited.raised THEN NoTime
                               ELSE limited.current_time])
    /\ UNCHANGED <<runVars, dedupVars, telegramVars, parkedVars, rate_limit_requests, rate_limit_window>>

\* A second passes between two calls.
ApolloTick ==
    /\ pc = "apollo"
    /\ a_now < MaxApolloClock
    /\ a_now' = a_now + 1
    /\ UNCHANGED <<runVars, dedupVars, telegramVars, parkedVars, rate_limit_requests, rate_limit_window,
                   request_times, a_requests>>

NextApollo == MakeRequest \/ ApolloTick

SpecApollo == InitApollo /\ [][NextApollo]_vars

\* ------------------------------------------------------------------ claims
Done == pc = "done"

\* The specs executed so far, in the order of the history.
ExecutedSpecs == [k \in 1..Len(search_history) |-> search_history[k].query_params]

\* The specs the planner calls returned, in the order they were returned.
RECURSIVE EnqueuedOrder(_)
EnqueuedOrder(evs) ==
    IF evs = <<>> THEN <<>>
    ELSE EnqueuedOrder(SubSeq(evs, 1, Len(evs) - 1)) \o evs[Len(evs)].out

\* The identity key of the spec's data model: the non-placeholder email, else
\* the profile URL, else the external id, else none.
IdentityKey(c) ==
    IF Truthy(c.email) /\ c.email \notin placeholder_emails
        THEN [kind |-> "email", value |-> c.email]
    ELSE IF Truthy(c.linkedin_url) THEN [kind |-> "url", value |-> c.linkedin_url]
    ELSE IF Truthy(c.id) THEN [kind |-> "id", value |-> c.id]
    ELSE [kind |-> "none", value |-> None]

HasStableIdentity(c) == IdentityKey(c).kind # "none"

RealEmail(c) == Truthy(c.email) /\ c.email \notin placeholder_emails

\* Whether the deduplicator keeps the j-th contact of the list.
KeptAt(contacts, j) ==
    Len(DeduplicateContacts(SubSeq(contacts, 1, j)))
        > Len(DeduplicateContacts(SubSeq(contacts, 1, j - 1)))

SharesUrlOrId(a, b) ==
    \/ Truthy(a.linkedin_url) /\ a.linkedin_url = b.linkedin_url
    \/ Truthy(a.id) /\ a.id = b.id

InvalidInput ==
    \/ max_iterations <= 0
    \/ min_results <= 0
    \/ max_results_per_query <= 0
    \/ user_query = ""

\* A call that passes the validation the spec asks for.
ValidCall == pc # "dedup" /\ ~InvalidInput

\* C1 (as claimed): with max_iterations = N >= 1 the round counter never
\* exceeds N and the history never holds more than N records.
C1_BoundedRounds ==
    ValidCall =>
        /\ iteration <= max_iterations
        /\ Len(search_history) <= max_iterations
        /\ Len(result.search_history) <= max_iterations

\* C2: once the deduplicated count of the accumulated contacts has reached
\* min_results, no step executes another round, and the run returns with a
\* history of exactly the rounds executed so far and with all the unique
\* contacts accumulated so far.
C2_ConvergenceStops ==
    [][ Len(DeduplicateContacts(all_contacts)) >= min_results =>
          /\ iteration' = iteration
          /\ search_history' = search_history
          /\ all_contacts' = all_contacts
          /\ pc' = "done" =>
               /\ Len(result'.search_history) = iteration
               /\ result'.iterations = iteration
               /\ result'.contacts = DeduplicateContacts(all_contacts) ]_vars

\* A run that converged after two rounds with a spec still pending.
C2_Witness ==
    /\ Done
    /\ min_results >= 1
    /\ result.iterations = 2
    /\ Len(result.contacts) >= min_results
    /\ cursor < Len(search_queries)

\* C3 (as claimed): a run that returns with specs still pending and fewer than
\* max_iterations rounds executed returns at least min_results contacts.
C3_EarlyStopHasMinResults ==
    (ValidCall /\ Done /\ cursor < Len(search_queries) /\ iteration < max_iterations)
        => Len(result.contacts) >= min_results

\* C4: no two contacts of the returned list have the same non-placeholder
\* email, and no two of them with an identity key have the same key.
C4_NoSharedIdentityKey ==
    Done =>
        \A i, j \in 1..Len(result.contacts) :
            i < j =>
                LET a == result.contacts[i]
                    b == result.contacts[j]
                IN  /\ ~(RealEmail(a) /\ a.email = b.email)
                    /\ (HasStableIdentity(a) /\ HasStableIdentity(b))
                          => IdentityKey(a) # IdentityKey(b)

\* A returned list of two contacts with identity keys of their own.
C4_Witness ==
    /\ Done
    /\ Len(result.contacts) = 2
    /\ HasStableIdentity(result.contacts[1])
    /\ HasStableIdentity(result.contacts[2])

\* C5: a placeholder email never enters seen_emails, and a contact with a
\* placeholder email is dropped only when a contact kept before it has the
\* same profile URL or the same external id.
C5_PlaceholderNeverCollapses ==
    /\ d_state.seen_emails \cap placeholder_emails = {}
    /\ \A j \in 1..Len(d_acc) :
         (d_acc[j].email \in placeholder_emails /\ ~KeptAt(d_acc, j)) =>
             \E i \in 1..(j - 1) : KeptAt(d_acc, i) /\ SharesUrlOrId(d_acc[i], d_acc[j])

\* Two contacts with the same placeholder email, both kept.
C5_Witness ==
    \E i, j \in 1..Len(d_acc) :
        /\ i < j
        /\ d_acc[i].email \in placeholder_emails
        /\ d_acc[i].email = d_acc[j].email
        /\ KeptAt(d_acc, i)
        /\ KeptAt(d_acc, j)
        /\ Len(d_state.unique) >= 2

\* C6: the specs are executed in the order in which the planner calls
\* returned them: the history's specs are a prefix of that order.
C6_FifoOrder ==
    /\ Len(ExecutedSpecs) <= Len(EnqueuedOrder(events))
    /\ ExecutedSpecs = SubSeq(EnqueuedOrder(events), 1, Len(ExecutedSpecs))

\* Two seed specs executed, then a spec that a later planner call returned.
C6_Witness ==
    /\ Len(search_history) >= 3
    /\ Len(events[1].out) = 2
    /\ \E k \in 2..Len(events) : events[k].op \in {"expand", "refine"} /\ events[k].out # <<>>

\* C7 (as claimed): a run with a non-positive bound or an empty goal calls
\* neither the oracle nor the provider, executes no round and returns no
\* result.
C7_ValidationFailsFast ==
    (pc # "dedup" /\ InvalidInput) =>
        /\ events = <<>>
        /\ iteration = 0
        /\ search_history = <<>>
        /\ ~Done

StableInput == \A k \in 1..Len(d_input) : HasStableIdentity(d_input[k])

DistinctIdentities(contacts) == Cardinality({IdentityKey(contacts[k]) : k \in 1..Len(contacts)})

\* What C8 says of the second merge and of repeated deduplication.
MergeTwiceAddsNothing ==
    /\ Len(d_added) = 2 =>
         /\ d_added[2] = 0
         /\ d_state.unique = DeduplicateContacts(d_input)
    /\ d_again # <<>> => d_again[1] = d_state.unique

\* C8 (as claimed): for a list of contacts with stable identities, the first
\* merge adds the number of distinct identity keys of the list, the second
\* merge adds zero and changes nothing, and deduplicating a deduplicated list
\* returns it unchanged.
C8_DedupIdempotent ==
    (StableInput /\ Len(d_added) >= 1) =>
        /\ d_added[1] = DistinctIdentities(d_input)
        /\ MergeTwiceAddsNothing

\* C8 (amended): the first merge adds at most the number of distinct identity
\* keys (and at least one contact of a non-empty list); the rest as claimed.
C8_DedupIdempotentAmended ==
    (StableInput /\ Len(d_added) >= 1) =>
        /\ d_added[1] <= DistinctIdentities(d_input)
        /\ d_input # <<>> => d_added[1] >= 1
        /\ MergeTwiceAddsNothing

\* A list with a repeated identity merged twice and deduplicated again.
C8_Witness ==
    /\ StableInput
    /\ Len(d_added) = 2
    /\ d_again # <<>>
    /\ Len(d_input) = 3
    /\ d_added[1] = 2

\* C9 (as claimed): in a round whose provider call failed neither
\* _learn_and_expand nor _refine_failed_search is called.
C9_ProviderFailureNoNewWork ==
    ValidCall =>
      \A k \in 1..Len(events) :
        (events[k].op = "search" /\ events[k].outcome = "raise") =>
            \A m \in 1..Len(events) :
                events[m].round = events[k].round => events[m].op \notin {"expand", "refine"}

\* C10 (as claimed): when the seeding call fails (it raises, or its text
\* cannot be parsed) the run goes on with the fallback spec alone.
C10_SeedingAlwaysTries ==
    (ValidCall /\ events # <<>> /\ events[1].outcome \in {"raise", "unparseable"}) =>
        /\ pc \in {"loop", "done"}
        /\ search_queries[1] = FallbackQuery
        /\ Len(events[1].out) = 1

\* The messages Telegram accepted in the 24 hours that start at time from.
SentInDayFrom(from) ==
    Cardinality({k \in 1..Len(t_sent) : t_sent[k] >= from /\ t_sent[k] < from + DaySeconds})

SharesRealEmail(a, b) == RealEmail(a) /\ a.email = b.email

\* C12 (as claimed): a contact with a stable identity is dropped if and only
\* if its identity key (the non-placeholder email, else the profile URL, else
\* the external id) is the key of a contact kept before it; so two contacts
\* with different real emails are both kept whatever else they share.
C12_SinglePriorityKey ==
    \A j \in 1..Len(d_acc) :
        HasStableIdentity(d_acc[j]) =>
            /\ ~KeptAt(d_acc, j) <=>
                  \E i \in 1..(j - 1) :
                      KeptAt(d_acc, i) /\ IdentityKey(d_acc[i]) = IdentityKey(d_acc[j])
            /\ \A i \in 1..(j - 1) :
                  (KeptAt(d_acc, i) /\ RealEmail(d_acc[i]) /\ RealEmail(d_acc[j])
                     /\ d_acc[i].email # d_acc[j].email
                     /\ \A h \in 1..(j - 1) : KeptAt(d_acc, h) => ~SharesRealEmail(d_acc[h], d_acc[j]))
                    => KeptAt(d_acc, j)

\* C12 (amended): a contact is dropped if and only if a contact kept before
\* it has the same non-placeholder email, the same profile URL or the same
\* external id.
C12_AnyFieldMatches ==
    \A j \in 1..Len(d_acc) :
        ~KeptAt(d_acc, j) <=>
            \E i \in 1..(j - 1) :
                /\ KeptAt(d_acc, i)
                /\ SharesRealEmail(d_acc[i], d_acc[j]) \/ SharesUrlOrId(d_acc[i], d_acc[j])

\* A contact dropped for the profile URL of a kept contact whose real email is
\* another one.
C12_Witness ==
    \E i, j \in 1..Len(d_acc) :
        /\ i < j
        /\ RealEmail(d_acc[i])
        /\ RealEmail(d_acc[j])
        /\ d_acc[i].email # d_acc[j].email
        /\ d_acc[i].linkedin_url = d_acc[j].linkedin_url
        /\ Truthy(d_acc[j].linkedin_url)
        /\ KeptAt(d_acc, i)
        /\ ~KeptAt(d_acc, j)

NoStableIdentity(c) == ~HasStableIdentity(c)

\* C13: a contact with no stable identity (no email or a placeholder email,
\* no profile URL, no external id) is always kept: the output holds as many
\* such contacts as the merged batches held, and the other contacts are kept
\* or dropped exactly as if the contacts with no identity were not there.
C13_NoIdentityAlwaysKept ==
    /\ \A j \in 1..Len(d_acc) : NoStableIdentity(d_acc[j]) => KeptAt(d_acc, j)
    /\ Len(SelectSeq(d_state.unique, NoStableIdentity)) = Len(SelectSeq(d_acc, NoStableIdentity))
    /\ SelectSeq(d_state.unique, HasStableIdentity)
          = DeduplicateContacts(SelectSeq(d_acc, HasStableIdentity))

\* Two batches merged, with the same contact without identity in each, around
\* a contact that is dropped as a duplicate.
C13_Witness ==
    /\ Len(d_added) = 2
    /\ \E i, j \in 1..Len(d_acc) :
         /\ i < j
         /\ NoStableIdentity(d_acc[i])
         /\ d_acc[i] = d_acc[j]
         /\ KeptAt(d_acc, i)
         /\ KeptAt(d_acc, j)
    /\ \E j \in 1..Len(d_acc) : ~KeptAt(d_acc, j)
    /\ Len(SelectSeq(d_state.unique, NoStableIdentity)) >= 2

\* The contacts of the list that the deduplicator keeps, as they were given.
RECURSIVE KeptSubSeq(_, _)
KeptSubSeq(contacts, j) ==
    IF j = 0 THEN <<>>
    ELSE IF KeptAt(contacts, j) THEN Append(KeptSubSeq(contacts, j - 1), contacts[j])
    ELSE KeptSubSeq(contacts, j - 1)

\* The truthy values of one field over the kept contacts.
KeptEmails == {EffectiveEmail(d_state.unique[k].email) : k \in 1..Len(d_state.unique)} \ {None, ""}
KeptUrls == {d_state.unique[k].linkedin_url : k \in 1..Len(d_state.unique)} \ {None, ""}
KeptIds == {d_state.unique[k].id : k \in 1..Len(d_state.unique)} \ {None, ""}

\* What C14 says of the kept records and of what is remembered: the output is
\* the kept contacts, unchanged and in the order returned, and the seen sets
\* hold the fields of the kept contacts only.
KeptUnchangedNothingMerged ==
    /\ d_state.unique = KeptSubSeq(d_acc, Len(d_acc))
    /\ d_state.seen_emails = KeptEmails
    /\ d_state.seen_linkedin = KeptUrls
    /\ d_state.seen_ids = KeptIds

\* C14 (as claimed): of the contacts with one identity key the one kept is
\* the one returned first (no later one is kept), unchanged, and the fields
\* of dropped contacts are neither merged nor remembered.
C14_FirstSeenWins ==
    /\ KeptUnchangedNothingMerged
    /\ \A i, j \in 1..Len(d_acc) :
         (i < j /\ HasStableIdentity(d_acc[j]) /\ IdentityKey(d_acc[i]) = IdentityKey(d_acc[j]))
            => ~KeptAt(d_acc, j)

\* C14 (amended): of two contacts that match on an identifying field the
\* earlier one, when it is kept, wins; the rest as claimed.
C14_FirstKeptWins ==
    /\ KeptUnchangedNothingMerged
    /\ \A i, j \in 1..Len(d_acc) :
         (i < j /\ KeptAt(d_acc, i)
            /\ (SharesRealEmail(d_acc[i], d_acc[j]) \/ SharesUrlOrId(d_acc[i], d_acc[j])))
            => ~KeptAt(d_acc, j)

\* A contact dropped as a duplicate, and a later contact kept that has the
\* identity key of the dropped one.
C14_Witness ==
    \E i, j, k \in 1..Len(d_acc) :
        /\ i < j /\ j < k
        /\ KeptAt(d_acc, i)
        /\ ~KeptAt(d_acc, j)
        /\ KeptAt(d_acc, k)
        /\ HasStableIdentity(d_acc[j])
        /\ IdentityKey(d_acc[j]) = IdentityKey(d_acc[k])
        /\ d_acc[j] # d_acc[k]

\* The rounds whose provider call raised.
FailedRounds ==
    {events[m].round : m \in {n \in 1..Len(events) :
                                 events[n].op = "search" /\ events[n].outcome = "raise"}}

\* C15 (as claimed): a failed provider call reaches the controller as
\* something else than an empty result, and the history record of a failed
\* round is not the record of a round that found nothing.
C15_FailureDistinguishable ==
    ValidCall =>
        \A k \in FailedRounds :
            /\ ExecuteApolloSearch([ok |-> FALSE, contacts |-> <<>>])
                  # ExecuteApolloSearch([ok |-> TRUE, contacts |-> <<>>])
            /\ search_history[k]
                  # RoundRecord(k, search_history[k].query_params,
                                ExecuteApolloSearch([ok |-> TRUE, contacts |-> <<>>]))

\* Between rounds: one record per executed round, numbered 1, 2, ..., and no
\* expansion or refinement asked for a round that has no record.
OneRecordPerRound ==
    pc \in {"loop", "done"} =>
        /\ Len(search_history) = iteration
        /\ \A k \in 1..Len(search_history) : search_history[k].iteration = k
        /\ \A m \in 1..Len(events) :
             events[m].op \in {"search", "expand", "refine"} =>
                 events[m].round \in 1..Len(search_history)
        /\ pc = "done" => result.search_history = search_history

\* A step that executes a round appends exactly one record, whose
\* results_count is the number of contacts the round added to all_contacts
\* (the raw contacts it returned).
RoundAppendsItsRecord ==
    iteration' # iteration =>
        /\ iteration' = iteration + 1
        /\ Len(search_history') = Len(search_history) + 1
        /\ SubSeq(search_history', 1, Len(search_history)) = search_history
        /\ search_history'[iteration'].results_count = Len(all_contacts') - Len(all_contacts)
        /\ search_history'[iteration'].query_params = search_queries[cursor + 1]

\* C16: exactly one record is appended per executed round whatever its
\* outcome; the history length equals the round counter, the records are
\* numbered 1..n in order, and each results_count is the raw number of
\* contacts of its round.
C16_OneRecordPerRound == []OneRecordPerRound /\ [][RoundAppendsItsRecord]_vars

\* Three rounds executed: one that found a contact, one that found nothing,
\* one whose provider call failed.
C16_Witness ==
    /\ Len(search_history) = 3
    /\ \E k \in 1..3 : search_history[k].results_count = 1
    /\ \E k \in 1..3 : k \notin FailedRounds /\ search_history[k].results_count = 0
    /\ FailedRounds # {}

\* C17 (as claimed): the planner adapter fails closed: an element that is not
\* a spec object is never placed in the pending queue nor executed as a
\* round, and an answer that is JSON but no list is taken as an empty list
\* (it adds nothing and does not end the run).
C17_PlannerFailsClosed ==
    ValidCall =>
        /\ \A k \in 1..Len(search_queries) : search_queries[k] # MalformedQuery
        /\ \A k \in 1..Len(search_history) : search_history[k].query_params # MalformedQuery
        /\ \A m \in 1..Len(events) : events[m].outcome = "scalar" => pc # "raised"

\* The last call logged, when the step logged an expansion or refinement call
\* whose oracle call raised or gave text that is not JSON.
OracleFailedInStep ==
    /\ Len(events') > Len(events)
    /\ events'[Len(events')].op \in {"expand", "refine"}
    /\ events'[Len(events')].outcome = "failed"

\* C18: an oracle failure during expansion or refinement does not end the
\* run: nothing is enqueued, the contacts, companies and history gathered so
\* far (this round's included) are kept, and the loop goes on.
C18_OracleFailureNotFatal ==
    [][ OracleFailedInStep =>
          /\ pc' = "loop"
          /\ search_queries' = search_queries
          /\ events'[Len(events')].out = <<>>
          /\ cursor' = cursor + 1
          /\ SubSeq(all_contacts', 1, Len(all_contacts)) = all_contacts
          /\ Len(all_contacts') = Len(all_contacts) + search_history'[iteration'].results_count
          /\ all_companies \subseteq all_companies'
          /\ SubSeq(search_history', 1, Len(search_history)) = search_history
          /\ Len(search_history') = Len(search_history) + 1 ]_vars

\* A run that returned after an expansion call and a refinement call failed
\* and a later round was executed.
C18_Witness ==
    /\ Done
    /\ \E m, n \in 1..Len(events) :
         /\ events[m].op = "expand" /\ events[m].outcome = "failed"
         /\ events[n].op = "refine" /\ events[n].outcome = "failed"
    /\ \E m, n \in 1..Len(events) :
         /\ m < n
         /\ events[m].outcome = "failed"
         /\ events[n].op = "search"
    /\ Len(result.contacts) >= 1

\* The calls a step logged.
NewEvents == SubSeq(events', Len(events) + 1, Len(events'))

\* Whether the step called the planner with the given operation.
CalledInStep(op) == \E m \in 1..Len(NewEvents) : NewEvents[m].op = op

\* The specs the planner calls of the step returned.
EnqueuedInStep == EnqueuedOrder(NewEvents)

\* C19 (as claimed): after a round _learn_and_expand is called if and only
\* if the round returned a contact, the round counter is below
\* max_iterations and the accumulated (merged, that is deduplicated) contact
\* count is below min_results; what it returns goes to the tail of the queue.
C19_ExpandIffBelowThreshold ==
    [][ (ValidCall /\ iteration' # iteration) =>
          /\ CalledInStep("expand") <=>
                /\ Len(all_contacts') > Len(all_contacts)
                /\ iteration' < max_iterations
                /\ Len(DeduplicateContacts(all_contacts')) < min_results
          /\ CalledInStep("expand") => search_queries' = search_queries \o EnqueuedInStep ]_vars

\* C20 (as claimed): after a round _refine_failed_search is called if and
\* only if the round's search completed without error, returned no contact,
\* and the round counter is below max_iterations; what it returns goes to
\* the tail of the queue.
C20_RefineIffEmptySuccess ==
    [][ (ValidCall /\ iteration' # iteration) =>
          /\ CalledInStep("refine") <=>
                /\ \E m \in 1..Len(NewEvents) :
                      NewEvents[m].op = "search" /\ NewEvents[m].outcome = "ok"
                /\ Len(all_contacts') = Len(all_contacts)
                /\ iteration' < max_iterations
          /\ CalledInStep("refine") => search_queries' = search_queries \o EnqueuedInStep ]_vars

\* The specs still waiting in the list the loop iterates over.
PendingSpecs == SubSeq(search_queries, cursor + 1, Len(search_queries))

\* C21 (as claimed): the pending queue never holds a spec that a round of
\* this run has executed, and the specs of the history are pairwise
\* different.
C21_NoSpecExecutedTwice ==
    ValidCall =>
        /\ \A p \in 1..Len(PendingSpecs), k \in 1..Len(search_history) :
              PendingSpecs[p] # search_history[k].query_params
        /\ \A j, k \in 1..Len(search_history) :
              j # k => search_history[j].query_params # search_history[k].query_params

\* The number of contacts the first k rounds returned, by the history's
\* counts.
RECURSIVE ReturnedBefore(_)
ReturnedBefore(k) ==
    IF k = 0 THEN 0 ELSE ReturnedBefore(k - 1) + search_history[k].results_count

\* The rounds whose contacts hold position j of all_contacts.
RoundsOfPosition(j) ==
    {k \in 1..Len(search_history) : ReturnedBefore(k - 1) < j /\ j <= ReturnedBefore(k)}

C23_StatsConsistent ==
    Done =>
        /\ result.iterations = Len(result.search_history)
        /\ result.stats.queries_executed = Len(result.search_history)
        /\ result.stats.total_contacts = Len(result.contacts)
        /\ result.stats.total_companies = Len(result.companies)
        /\ result.stats.avg_results_per_query[2] # 0
        /\ result.search_history = <<>> => result.stats.avg_results_per_query[1] = 0

\* A valid call that returned without executing a round.
C23_Witness ==
    /\ Done
    /\ ValidCall
    /\ result.search_history = <<>>
    /\ result.stats.queries_executed = 0

\* The company names of the contact pool in alphabetical order.
SortedNames == <<"Acme", "Beta">>

\* The place of a name in the alphabetical order.
NameRank(name) == CHOOSE k \in 1..Len(SortedNames) : SortedNames[k] = name

\* C24 (as claimed): the returned company list is sorted, has no duplicate
\* and no empty name, and holds exactly the non-empty company names of the
\* contacts the rounds returned.
C24_CompaniesSortedAndExact ==
    Done =>
        /\ \A i, j \in 1..Len(result.companies) :
              i < j => NameRank(result.companies[i]) < NameRank(result.companies[j])
        /\ \A i \in 1..Len(result.companies) : Truthy(result.companies[i])
        /\ {result.companies[i] : i \in 1..Len(result.companies)}
              = {all_contacts[j].company : j \in 1..Len(all_contacts)} \ {None, ""}

\* C26 (as claimed): of the messages one service object sent, any two are at
\* least MIN_MESSAGE_INTERVAL apart and no period of 24 hours holds more
\* than MAX_DAILY_MESSAGES.
C26_ServiceRateLimited ==
    /\ \A i, j \in 1..Len(t_sent) :
         i < j => t_sent[j] - t_sent[i] >= MIN_MESSAGE_INTERVAL
    /\ \A k \in 1..Len(t_sent) : SentInDayFrom(t_sent[k]) <= MAX_DAILY_MESSAGES

\* The requests of the client issued in the rate_limit_window seconds that
\* start at `from`.
IssuedInWindowFrom(from) ==
    {m \in 1..Len(a_requests) :
        /\ a_requests[m].issued # NoTime
        /\ a_requests[m].issued >= from
        /\ a_requests[m].issued < from + rate_limit_window}

\* C27: on one Apollo client, the requests issued in any rate_limit_window
\* seconds are at most rate_limit_requests; every call issues its request
\* (none is dropped), and a call that had to wait issues it no earlier than
\* the moment the oldest request of the full window has left the window.
C27_ApolloRateLimited ==
    pc = "apollo" =>
        \A k \in 1..Len(a_requests) :
            /\ a_requests[k].issued # NoTime
            /\ Cardinality(IssuedInWindowFrom(a_requests[k].issued)) <= rate_limit_requests
            /\ a_requests[k].issued > a_requests[k].called
                 => /\ k > rate_limit_requests
                    /\ a_requests[k].issued >=
                         a_requests[k - rate_limit_requests].issued + rate_limit_window

\* A call found the window full, waited, and then issued its request.
C27_Witness ==
    /\ pc = "apollo"
    /\ rate_limit_requests = 2
    /\ \E k \in 1..Len(a_requests) :
         /\ a_requests[k].issued > a_requests[k].called
         /\ a_requests[k].issued = a_requests[k - 2].issued + rate_limit_window

\* The number of specs the seeding call gave.
SeedSize == IF events = <<>> THEN 0 ELSE Len(events[1].out)

\* The planner calls made after a round.
PlannerCalls == {m \in 1..Len(events) : events[m].op \in {"expand", "refine"}}

\* The largest number of specs an expansion or refinement call returned.
MostReturned ==
    LET sizes == {Len(events[m].out) : m \in PlannerCalls} \cup {0}
    IN  CHOOSE x \in sizes : \A y \in sizes : y <= x

\* Specs are enqueued only in rounds below max_iterations, and the rounds
\* executed are at most s + (max_iterations - 1) * k.
RoundsWithinBound ==
    /\ \A m \in PlannerCalls : events[m].round < max_iterations
    /\ Len(search_history) <= SeedSize + (max_iterations - 1) * MostReturned

\* C28 (as claimed): every run ends, whatever the oracle and the provider
\* answer: specs are enqueued only in rounds below max_iterations, the rounds
\* executed are at most s + (max_iterations - 1) * k for a seed of s specs and
\* planner calls returning at most k specs, and the run returns its result.
C28_TerminatesWithResult ==
    /\ [](ValidCall => RoundsWithinBound)
    /\ (ValidCall => <>Done)

\* Whether a can be had from b by leaving elements out.
RECURSIVE IsSubsequence(_, _)
IsSubsequence(a, b) ==
    IF a = <<>> THEN TRUE
    ELSE IF b = <<>> THEN FALSE
    ELSE IF Head(a) = Head(b) THEN IsSubsequence(Tail(a), Tail(b))
    ELSE IsSubsequence(a, Tail(b))

\* C29: the deduplicated list is a subsequence of the accumulated contacts (no
\* record added, changed or moved), and every record left out shares a
\* non-placeholder email, a profile URL or an external id with a record that
\* stands earlier in the input and is kept.
C29_OnlyTrueDuplicatesRemoved ==
    pc = "dedup" =>
        LET kept == {j \in 1..Len(d_acc) : KeptAt(d_acc, j)}
        IN  /\ IsSubsequence(d_state.unique, d_acc)
            /\ Len(d_state.unique) = Cardinality(kept)
            /\ \A j \in (1..Len(d_acc)) \ kept :
                 \E i \in kept :
                     /\ i < j
                     /\ \/ SharesRealEmail(d_acc[i], d_acc[j])
                        \/ SharesUrlOrId(d_acc[i], d_acc[j])

\* Two different contacts kept in the order given and a third one left out
\* between or behind them.
C29_Witness ==
    /\ pc = "dedup"
    /\ Len(d_state.unique) >= 2
    /\ d_state.unique[1] # d_state.unique[2]
    /\ \E j \in 2..Len(d_acc) : ~KeptAt(d_acc, j) /\ d_acc[j] \notin {d_acc[i] : i \in 1..(j - 1)}

\* C30: any two records of the deduplicated list, at different places, share
\* no non-placeholder email, no non-empty profile URL and no non-empty
\* external id.
C30_KeptPairwiseDisjoint ==
    pc = "dedup" =>
        \A i, j \in 1..Len(d_state.unique) :
            i # j =>
                LET a == d_state.unique[i]
                    b == d_state.unique[j]
                IN  /\ ~SharesRealEmail(a, b)
                    /\ ~(Truthy(a.linkedin_url) /\ a.linkedin_url = b.linkedin_url)
                    /\ ~(Truthy(a.id) /\ a.id = b.id)

\* Two records kept, and one left out although its real email is the email
\* of no record kept before it: it shares a lower-priority field.
C30_Witness ==
    /\ pc = "dedup"
    /\ Len(d_state.unique) >= 2
    /\ \E j \in 2..Len(d_acc) :
         /\ ~KeptAt(d_acc, j)
         /\ RealEmail(d_acc[j])
         /\ \A i \in 1..(j - 1) : d_acc[i].email # d_acc[j].email

\* The contacts the rounds of a history returned, added up.
RECURSIVE ReturnedInAll(_)
ReturnedInAll(history) ==
    IF history = <<>> THEN 0
    ELSE ReturnedInAll(SubSeq(history, 1, Len(history) - 1))
            + history[Len(history)].results_count

\* The locals l of a call hold what the call itself was answered and nothing
\* else: its queue is its seed followed by what its planner calls returned,
\* its rounds are numbered 1, 2, ... and executed its queue in order, its
\* contacts are as many as its rounds returned, its companies are companies
\* of its contacts, and its result is built from them.
OwnsItsState(l) ==
    /\ l.search_queries = EnqueuedOrder(l.events)
    /\ l.iteration = Len(l.search_history)
    /\ l.cursor = l.iteration
    /\ \A k \in 1..Len(l.search_history) :
         /\ l.search_history[k].iteration = k
         /\ l.search_history[k].query_params = l.search_queries[k]
    /\ Len(l.all_contacts) = ReturnedInAll(l.search_history)
    /\ l.all_companies \subseteq {l.all_contacts[k].company : k \in 1..Len(l.all_contacts)}
    /\ l.pc = "done" =>
         /\ l.result.contacts = DeduplicateContacts(l.all_contacts)
         /\ l.result.search_history = l.search_history
         /\ l.result.iterations = l.iteration
         /\ l.result.stats = Stats(l.result.contacts, l.all_contacts, l.all_companies,
                                   l.search_history)
    /\ l.pc # "done" => l.result = NoResult

\* C25: two calls of run_agentic_search on one service object, their steps
\* interleaved in any way: a step of one call changes nothing of the other
\* call, a call that goes on finds its queue, contacts, companies, history and
\* round counter as it left them, and so the state and the result of each call
\* are those of the call alone with the same answers.
C25_ConcurrentRunsIsolated ==
    /\ [](other # NoOther => OwnsItsState(RunLocals) /\ OwnsItsState(other))
    /\ [][ other # NoOther =>
             IF running' = running
                THEN other' = other
                ELSE RunLocals' = other /\ other' = RunLocals ]_vars

\* One call has returned its contacts while the other call, started before
\* the first returned, is in the middle of its rounds with contacts of its
\* own.
C25_Witness ==
    /\ other # NoOther
    /\ pc = "done"
    /\ result.contacts # <<>>
    /\ other.pc = "loop"
    /\ other.iteration >= 1
    /\ other.cursor < Len(other.search_queries)
    /\ other.all_contacts # <<>>
    /\ other.all_contacts # all_contacts

====
